---- MODULE Spec2Model ----
(***************************************************************************)
(* Model of the scheduling engine of flow-api: SchedulerService            *)
(* (services/schedulerService.js, here src/unnamed/part_001).              *)
(*                                                                         *)
(* The service runs on one Node.js event loop.  Every async method is a    *)
(* sequence of synchronous segments separated by `await`; a segment is     *)
(* atomic, and segments of different invocations interleave freely.  Each  *)
(* invocation is a "call" with a program counter naming the await it is    *)
(* suspended at.  A store read and the continuation that uses its result   *)
(* are two steps; a store write happens at its own step as well.  The      *)
(* calls in flight form a bag: two calls at the same position with the     *)
(* same locals are interchangeable.                                        *)
(*                                                                         *)
(* The persisted store holds one FlowSchedule document per schedule id.    *)
(* A call works on its own in-memory copy of the document (`doc`) and      *)
(* `schedule.save()` writes back the paths the call has modified.          *)
(***************************************************************************)
EXTENDS Integers, Sequences, FiniteSets, Bags, TLC

\* ------------------------------------------------------------------ bounds
\* Number of method invocations (calls) in one behaviour.
MaxCalls == 2

\* Schedule ids present in the store.
Schedules == {1}

\* Auto-disable threshold of the failure branch.
FailureLimit == 3

\* ------------------------------------------------------------- state
VARIABLES
  store,        \* persisted FlowSchedule documents, by schedule id
  flows,        \* whether the schedule's Flow document exists
  jobs,         \* this.jobs: schedule id -> task handle (0 = no entry)
  tasks,        \* every cron task created so far: [sid, live, cron]
  initialized,  \* this.initialized
  calls,        \* the invocations in flight: position and local variables
  ncalls,       \* number of invocations made so far
  last,         \* the invocation that ended most recently
  failStreak,   \* firings of a schedule that ended in failure since its last success
  alive         \* FALSE once the process has exited

vars == <<store, flows, jobs, tasks, initialized, calls, ncalls, last, failStreak, alive>>

\* new Date(): a logical clock that advances with every invocation; instant 1
\* lies before the start of the process.
Now == ncalls + 2

\* ------------------------------------------------------ schedule documents
\* The recurrence definition of a schedule (the fields toCronExpression reads).
IntervalMinutes15 ==
  [scheduleType |-> "interval", cronExpression |-> "", intervalValue |-> 15,
   intervalUnit |-> "minutes", time |-> "", daysOfWeek |-> <<>>, dayOfMonth |-> 0]

UnknownType ==
  [scheduleType |-> "yearly", cronExpression |-> "", intervalValue |-> 0,
   intervalUnit |-> "", time |-> "", daysOfWeek |-> <<>>, dayOfMonth |-> 0]

\* A FlowSchedule document.  lastAt/nextAt 0 stand for an unset date, max 0 for
\* an unset maxExecutions, paused "" for an unset pausedReason.  `flow` is the
\* populated flowId: it is filled in by a read and never written back.
NewSchedule(d, nx, mx, ex) ==
  [exists |-> TRUE, enabled |-> TRUE, running |-> FALSE, count |-> 0, max |-> mx,
   fails |-> 0, status |-> "none", lastAt |-> 0, nextAt |-> nx, paused |-> "",
   curExec |-> 0, expired |-> ex, flow |-> FALSE, def |-> d]

\* What findById resolves to when no document has the id.
NullDoc ==
  [exists |-> FALSE, enabled |-> FALSE, running |-> FALSE, count |-> 0, max |-> 0,
   fails |-> 0, status |-> "none", lastAt |-> 0, nextAt |-> 0, paused |-> "",
   curExec |-> 0, expired |-> FALSE, flow |-> FALSE, def |-> UnknownType]

\* The persisted paths a call may modify.
Paths == {"enabled", "running", "count", "fails", "status", "lastAt", "nextAt",
          "paused", "curExec"}

\* FlowSchedule.findById(id).populate('flowId'): the stored document with its
\* flow reference resolved, or null.
FindById(st, fl, s) ==
  IF st[s].exists THEN [st[s] EXCEPT !.flow = fl[s]] ELSE NullDoc

\* The paths on which document b differs from document a (assignments that
\* change a value mark the path modified).
Modified(a, b) == {p \in Paths : a[p] # b[p]}

\* As SaveDoc, writing nothing to a schedule that is disabled in the store.
SaveDocUnlessDisabled(rec, doc, dirty) ==
  IF rec.exists /\ rec.enabled
    THEN [p \in DOMAIN rec |-> IF p \in dirty THEN doc[p] ELSE rec[p]]
    ELSE rec

\* schedule.save(): writes the modified paths of the in-memory document to the
\* stored one; a document deleted meanwhile is not created again.
SaveDoc(rec, doc, dirty) ==
  IF rec.exists
    THEN [p \in DOMAIN rec |-> IF p \in dirty THEN doc[p] ELSE rec[p]]
    ELSE rec

\* calculateNextExecution(schedule): the next matching instant, strictly after
\* the current one.
calculateNextExecution(doc, t) == t + 1

\* ------------------------------------------------------- toCronExpression
RECURSIVE SplitAt(_, _, _)
\* s.split(sep) for a one-character separator, with `cur` the part read so far.
SplitAt(s, sep, cur) ==
  IF Len(s) = 0 THEN <<cur>>
  ELSE IF Head(s) = sep THEN <<cur>> \o SplitAt(Tail(s), sep, "")
  ELSE SplitAt(Tail(s), sep, cur \o Head(s))

Split(s, sep) == SplitAt(s, sep, "")

RECURSIVE Join(_, _)
\* array.join(sep) of an array of numbers.
Join(a, sep) ==
  IF Len(a) = 0 THEN ""
  ELSE IF Len(a) = 1 THEN ToString(a[1])
  ELSE ToString(a[1]) \o sep \o Join(Tail(a), sep)

\* A destructured array element: "undefined" when the array is too short.
Elem(a, i) == IF i <= Len(a) THEN a[i] ELSE "undefined"

Returned(v) == [ok |-> TRUE, val |-> v]
\* throw new Error(m): the error's name is that of its constructor.
Thrown(m) == [ok |-> FALSE, val |-> m, name |-> "Error"]

\* As IntervalExpression, with the hours pattern lacking its leading minute 0.
IntervalExpressionHoursAsMinutes(d) ==
  IF d.intervalUnit = "minutes"
    THEN Returned("*/" \o ToString(d.intervalValue) \o " * * * *")
  ELSE IF d.intervalUnit = "hours"
    THEN Returned("*/" \o ToString(d.intervalValue) \o " * * *")
  ELSE IF d.intervalUnit = "days"
    THEN Returned("0 0 */" \o ToString(d.intervalValue) \o " * *")
  ELSE Thrown("Unknown interval unit: " \o d.intervalUnit)

\* The branch of toCronExpression for scheduleType 'interval'.
IntervalExpression(d) ==
  IF d.intervalUnit = "minutes"
    THEN Returned("*/" \o ToString(d.intervalValue) \o " * * * *")
  ELSE IF d.intervalUnit = "hours"
    THEN Returned("0 */" \o ToString(d.intervalValue) \o " * * *")
  ELSE IF d.intervalUnit = "days"
    THEN Returned("0 0 */" \o ToString(d.intervalValue) \o " * *")
  ELSE Thrown("Unknown interval unit: " \o d.intervalUnit)

toCronExpression(d) ==
  IF d.scheduleType = "cron" THEN Returned(d.cronExpression)
  ELSE IF d.scheduleType = "interval" THEN IntervalExpression(d)
  ELSE IF d.scheduleType = "daily" THEN
    LET hm == Split(d.time, ":")
    IN Returned(Elem(hm, 2) \o " " \o Elem(hm, 1) \o " * * *")
  ELSE IF d.scheduleType = "weekly" THEN
    LET hm == Split(d.time, ":")
    IN Returned(Elem(hm, 2) \o " " \o Elem(hm, 1) \o " * * " \o Join(d.daysOfWeek, ","))
  ELSE IF d.scheduleType = "monthly" THEN
    LET hm == Split(d.time, ":")
    IN Returned(Elem(hm, 2) \o " " \o Elem(hm, 1) \o " " \o ToString(d.dayOfMonth) \o " * *")
  ELSE Thrown("Unknown schedule type: " \o d.scheduleType)

\* ------------------------------------------------------------ the registry
\* As Unregistered, but the entry is deleted without task.stop().
UnregisteredWithoutStop(j, t, s) ==
  [jobs |-> [j EXCEPT ![s] = 0], tasks |-> t]

\* unregisterSchedule(scheduleId) on the registry (j = this.jobs, t = the cron
\* tasks): stop the task and delete the entry, if there is one.
Unregistered(j, t, s) ==
  IF j[s] # 0
    THEN [jobs |-> [j EXCEPT ![s] = 0], tasks |-> [t EXCEPT ![j[s]].live = FALSE]]
    ELSE [jobs |-> j, tasks |-> t]

\* The head of registerSchedule: an existing entry is removed first.
Superseded(j, t, s) ==
  IF j[s] # 0 THEN Unregistered(j, t, s) ELSE [jobs |-> j, tasks |-> t]

\* cron.schedule(expr, callback, {scheduled: true}) and this.jobs.set(id, task).
Scheduled(j, t, s, expr) ==
  [jobs |-> [j EXCEPT ![s] = Len(t) + 1],
   tasks |-> Append(t, [sid |-> s, live |-> TRUE, cron |-> expr])]

\* Schedule ids with a created-and-not-stopped task, and the tasks of one id.
LiveTasks(s) == {i \in 1..Len(tasks) : tasks[i].sid = s /\ tasks[i].live}

\* As getStats, counting every schedule id, registered or not.
getStatsCountingAll(j) ==
  [totalSchedules |-> Cardinality(DOMAIN j),
   activeSchedules |-> {s \in DOMAIN j : j[s] # 0}]

\* getStats(): the size and the keys of this.jobs (j).
getStats(j) ==
  [totalSchedules |-> Cardinality({s \in DOMAIN j : j[s] # 0}),
   activeSchedules |-> {s \in DOMAIN j : j[s] # 0}]

\* ------------------------------------------------ executeScheduledFlow, pure
\* As Guard, without the concurrency guard.
GuardWithoutRunningCheck(doc) ==
  IF ~doc.exists \/ ~doc.enabled THEN "skipped_disabled" ELSE "proceed"

\* As Guard, without the enabled check.
GuardIgnoringEnabled(doc) ==
  IF ~doc.exists THEN "skipped_disabled"
  ELSE IF doc.running THEN "skipped_running"
  ELSE "proceed"

\* The checks at the head of the handler, on the document just read.
Guard(doc) ==
  IF ~doc.exists \/ ~doc.enabled THEN "skipped_disabled"
  ELSE IF doc.running THEN "skipped_running"
  ELSE "proceed"

\* As SuccessUpdate, without the reset of consecutiveFailures.
SuccessUpdateKeepingFailures(doc, t) ==
  LET d1 == [doc EXCEPT !.lastAt = t, !.count = doc.count + 1, !.status = "success",
                        !.running = FALSE, !.curExec = 0]
      d2 == [d1 EXCEPT !.nextAt = calculateNextExecution(d1, t)]
  IN d2

\* As SuccessUpdate, without clearing isCurrentlyRunning.
SuccessUpdateKeepingRunning(doc, t) ==
  LET d1 == [doc EXCEPT !.lastAt = t, !.count = doc.count + 1, !.status = "success",
                        !.fails = 0, !.curExec = 0]
      d2 == [d1 EXCEPT !.nextAt = calculateNextExecution(d1, t)]
  IN d2

\* The success branch's assignments at time t.
SuccessUpdate(doc, t) ==
  LET d1 == [doc EXCEPT !.lastAt = t, !.count = doc.count + 1, !.status = "success",
                        !.fails = 0, !.running = FALSE, !.curExec = 0]
      d2 == [d1 EXCEPT !.nextAt = calculateNextExecution(d1, t)]
  IN d2

\* As MaxReached, with > for >=.
MaxReachedOffByOne(doc) == doc.max # 0 /\ doc.count > doc.max

\* The success branch's execution limit test.
MaxReached(doc) == doc.max # 0 /\ doc.count >= doc.max

SuccessPause(doc) ==
  IF MaxReached(doc)
    THEN [doc EXCEPT !.enabled = FALSE, !.paused = "Max executions reached"]
    ELSE doc

\* As FailureUpdate, leaving isCurrentlyRunning as it is.
FailureUpdateKeepingRunning(doc, t, m) ==
  [doc EXCEPT !.lastAt = t, !.status = "failed", !.fails = doc.fails + 1,
              !.curExec = 0]

\* The catch block's assignments at time t for an error with message m.
FailureUpdate(doc, t, m) ==
  [doc EXCEPT !.lastAt = t, !.status = "failed", !.fails = doc.fails + 1,
              !.running = FALSE, !.curExec = 0]

\* As TooManyFailures, with > for >=.
TooManyFailuresOffByOne(doc) == doc.fails > FailureLimit

\* The catch block's consecutive failure test.
TooManyFailures(doc) == doc.fails >= FailureLimit

\* As FailurePause, without the recomputation of nextExecutionAt.
FailurePauseWithoutRecompute(doc, t, m) ==
  IF TooManyFailures(doc)
    THEN [doc EXCEPT !.enabled = FALSE,
                     !.paused = "Paused after " \o ToString(doc.fails)
                                \o " consecutive failures: " \o m]
    ELSE doc

\* The catch block's pause after too many failures, or its recomputation of
\* nextExecutionAt.
FailurePause(doc, t, m) ==
  IF TooManyFailures(doc)
    THEN [doc EXCEPT !.enabled = FALSE,
                     !.paused = "Paused after " \o ToString(doc.fails)
                                \o " consecutive failures: " \o m]
    ELSE [doc EXCEPT !.nextAt = calculateNextExecution(doc, t)]

\* ------------------------------------------------------- the flow executor
\* flowExecutor.executeFlow on a flow of three nodes A, B, C (1, 2, 3).  A run
\* is a record: status (idle, running, success, failed); the flow's edges and
\* each node's behaviour; order: the nodes still to execute; phase: the await
\* the loop is at (resolve: registry.getFunction, invoke: the method);
\* results: the outputs recorded so far, by node id; invoked: the nodes whose
\* method was invoked, in order, each with the input it was given; error: the
\* failure detail.
Nodes == {1, 2, 3}

Chain == {<<1, 2>>, <<2, 3>>}
ReverseChain == {<<3, 2>>, <<2, 1>>}
Fork == {<<1, 2>>, <<1, 3>>}
Cyclic == {<<1, 2>>, <<2, 1>>}
Graphs == {Chain, ReverseChain, Fork, Cyclic}

\* What a node does: its method resolves and returns, does not resolve, or
\* resolves and throws.
Behaviours == {"ok", "unresolved", "throws"}

NoError == [kind |-> "", node |-> 0]

NoExecution ==
  [status |-> "idle", edges |-> {}, behaviour |-> <<>>, order |-> <<>>,
   phase |-> "", results |-> <<>>, invoked |-> <<>>, error |-> NoError]

\* The source nodes of the edges into n.
Upstream(n, edges) == {e[1] : e \in {x \in edges : x[2] = n}}

RECURSIVE TopologicalOrder(_, _, _)
\* A topological order of the nodes todo, given the nodes done: the least
\* ready node first.  It stops short when no node is ready (a cycle).
TopologicalOrder(todo, edges, done) ==
  LET ready == {n \in todo : Upstream(n, edges) \subseteq done}
  IN IF ready = {} THEN <<>>
     ELSE LET n == CHOOSE x \in ready : \A y \in ready : x <= y
          IN <<n>> \o TopologicalOrder(todo \ {n}, edges, done \cup {n})

sortedNodes(edges) == TopologicalOrder(Nodes, edges, {})

\* The output of node n's method.
Output(n) == 10 * n

\* As AssembledInput, without the outputs of the upstream nodes.
AssembledInputGlobalOnly(n, edges, results) ==
  [upstream |-> <<>>, global |-> "inputData"]

\* The input handed to node n's method: the recorded outputs of its upstream
\* nodes and the globally resolved inputs.
AssembledInput(n, edges, results) ==
  [upstream |-> [m \in Upstream(n, edges) \cap DOMAIN results |-> results[m]],
   global |-> "inputData"]

\* executeFlow is entered with a flow of edges g and node behaviours b: the
\* order is computed, and a cycle fails the run with a GraphError.
Started(g, b) ==
  LET order == sortedNodes(g)
      e == [NoExecution EXCEPT !.edges = g, !.behaviour = b]
  IN IF Len(order) < Cardinality(Nodes)
       THEN [e EXCEPT !.status = "failed", !.error = [kind |-> "GraphError", node |-> 0]]
       ELSE [e EXCEPT !.status = "running", !.order = order, !.phase = "resolve"]

\* registry.getFunction(node.type, node.data.function) settles for the next
\* node of the order.
Resolved(e) ==
  LET n == Head(e.order)
  IN IF e.behaviour[n] = "unresolved"
       THEN [e EXCEPT !.status = "failed", !.phase = "",
                      !.error = [kind |-> "MethodResolutionFailure", node |-> n]]
       ELSE [e EXCEPT !.phase = "invoke"]

\* As Invoked, recording an output for a node whose method threw.
InvokedRecordingFailure(e) ==
  LET n == Head(e.order)
      e1 == [e EXCEPT !.invoked = Append(@, [node |-> n,
                                    input |-> AssembledInput(n, e.edges, e.results)]),
                      !.results = (n :> Output(n)) @@ @]
  IN IF e.behaviour[n] = "throws"
       THEN [e1 EXCEPT !.status = "failed", !.phase = "",
                       !.error = [kind |-> "ExecutionFailure", node |-> n]]
     ELSE IF Len(e.order) = 1
       THEN [e1 EXCEPT !.order = <<>>, !.phase = "", !.status = "success"]
       ELSE [e1 EXCEPT !.order = Tail(@), !.phase = "resolve"]

\* The method of the next node is invoked and settles: its output is recorded
\* under the node's id, or the run fails.
Invoked(e) ==
  LET n == Head(e.order)
      e1 == [e EXCEPT !.invoked = Append(@, [node |-> n,
                                    input |-> AssembledInput(n, e.edges, e.results)])]
      e2 == [e1 EXCEPT !.results = (n :> Output(n)) @@ @]
  IN IF e.behaviour[n] = "throws"
       THEN [e1 EXCEPT !.status = "failed", !.phase = "",
                       !.error = [kind |-> "ExecutionFailure", node |-> n]]
     ELSE IF Len(e.order) = 1
       THEN [e2 EXCEPT !.order = <<>>, !.phase = "", !.status = "success"]
       ELSE [e2 EXCEPT !.order = Tail(@), !.phase = "resolve"]

\* ------------------------------------------------------------------- calls
\* An invocation of a service method.  kind: the method; pc: the await it is
\* suspended at; sid: its scheduleId; task: the cron task whose callback made
\* it (0 for a direct call); doc/dirty: its document and that document's
\* modified paths; list: the documents initialize still has to register;
\* expr: the cron expression computed by registerSchedule; old: the handle
\* registerSchedule found in this.jobs; made: the handle it stored; ran:
\* whether it invoked the flow executor; out: how it ended.  Three fields
\* only record history: seen is the document as the call read it, loaded the
\* ids that qualified when initialize ran its query, err the message of the
\* error the catch block of executeScheduledFlow caught.  run is the flow
\* run of a firing, where the flow executor is followed node by node.
NewCall(k, s, p) ==
  [kind |-> k, pc |-> p, sid |-> s, task |-> 0, doc |-> NullDoc,
   dirty |-> {}, list |-> <<>>, expr |-> "", old |-> 0, made |-> 0,
   ran |-> FALSE, out |-> "", seen |-> NullDoc, loaded |-> {}, err |-> "",
   run |-> NoExecution]

\* What is remembered of an invocation that has ended with outcome o.
Ended(rec, o) ==
  [kind |-> rec.kind, sid |-> rec.sid, task |-> rec.task, old |-> rec.old,
   made |-> rec.made, ran |-> rec.ran, out |-> o, loaded |-> rec.loaded]

InFlight == BagToSet(calls)

\* Call rec is suspended again, as rec2.
Suspend(rec, rec2) ==
  /\ calls' = (calls (-) SetToBag({rec})) (+) SetToBag({rec2})
  /\ UNCHANGED last

\* A new call is suspended at its first await, as rec.
Begin(rec) ==
  /\ calls' = calls (+) SetToBag({rec})
  /\ UNCHANGED last

\* Call rec ends with outcome o.
Finish(rec, o) ==
  /\ calls' = calls (-) SetToBag({rec})
  /\ last' = Ended(rec, o)

\* A call that ends in the segment that made it.
BeginFinish(rec, o) ==
  /\ UNCHANGED calls
  /\ last' = Ended(rec, o)

\* A call may be made.
MayCall ==
  /\ alive
  /\ ncalls < MaxCalls

\* A document on which n firings in a row have failed, the last at instant 1.
AfterFailures(doc, n) ==
  IF n = 0 THEN doc
  ELSE [doc EXCEPT !.fails = n, !.status = "failed", !.lastAt = 1]

InitDefs == {IntervalMinutes15, UnknownType}
InitNextAt == {0, 2}
InitMax == {0, 1, 2}
InitFails == {0, 2}

\* The documents the process may find: created by the API layer, possibly
\* with failures recorded by an earlier run of the process.
InitDocs ==
  {AfterFailures(NewSchedule(d, nx, mx, FALSE), n) :
     d \in InitDefs, nx \in InitNextAt, mx \in InitMax, n \in InitFails}

\* The store as the process finds it: a schedule may have been deleted, or
\* its flow may have been, before the process started.
Init ==
  /\ store \in [Schedules -> InitDocs \cup {NullDoc}]
  /\ flows \in [Schedules -> BOOLEAN]
  /\ \A s \in Schedules : ~store[s].exists => flows[s]
  /\ jobs = [s \in Schedules |-> 0]
  /\ tasks = <<>>
  /\ initialized = FALSE
  /\ calls = EmptyBag
  /\ ncalls = 0
  /\ last = Ended(NewCall("none", 0, "idle"), "")
  /\ failStreak = [s \in Schedules |-> store[s].fails]
  /\ alive = TRUE

\* -------------------------------------------------------- registerSchedule
\* registerSchedule(doc) up to its first await, for the call suspended as
\* orig whose record is now rec (fresh = the call is made in this segment and
\* was not suspended before).  The method ends here when the
\* expression is invalid (throw) or nextExecutionAt is already set (no await
\* before cron.schedule); inside initialize the loop then goes on.
RegisterBegin(orig, rec, doc, fresh) ==
  LET s == rec.sid
      un == Superseded(jobs, tasks, s)
      cr == toCronExpression(doc.def)
      r1 == [rec EXCEPT !.old = jobs[s], !.made = 0]
      Go(x) == IF fresh THEN Begin(x) ELSE Suspend(orig, x)
      End(x, o) == IF fresh THEN BeginFinish(x, o)
                           ELSE calls' = calls (-) SetToBag({orig}) /\ last' = Ended(x, o)
  IN IF ~cr.ok THEN
       /\ jobs' = un.jobs
       /\ tasks' = un.tasks
       /\ End(r1, "threw")
     ELSE IF doc.nextAt = 0 THEN
       LET d1 == [doc EXCEPT !.nextAt = calculateNextExecution(doc, Now)]
       IN /\ jobs' = un.jobs
          /\ tasks' = un.tasks
          /\ Go([r1 EXCEPT !.pc = "r_save", !.doc = d1,
                           !.dirty = Modified(doc, d1), !.expr = cr.val])
     ELSE
       LET sc == Scheduled(un.jobs, un.tasks, s, cr.val)
           r2 == [r1 EXCEPT !.made = sc.jobs[s]]
       IN /\ jobs' = sc.jobs
          /\ tasks' = sc.tasks
          /\ IF rec.kind = "initialize"
               THEN Go([r2 EXCEPT !.pc = "i_loop", !.doc = NullDoc, !.dirty = {}])
               ELSE End(r2, "registered")

\* A direct call registerSchedule(schedule) with the stored document of s.
RegisterSchedule(s) ==
  /\ MayCall
  /\ store[s].exists
  /\ ncalls' = ncalls + 1
  /\ LET rec == NewCall("registerSchedule", s, "r_begin")
     IN RegisterBegin(rec, rec, FindById(store, flows, s), TRUE)
  /\ UNCHANGED <<store, flows, initialized, failStreak, alive>>

\* The store write of `await schedule.save()` in registerSchedule.
RegisterSave(rec) ==
  /\ alive /\ rec.pc = "r_save"
  /\ \E ok \in BOOLEAN :
       /\ store' = IF ok THEN [store EXCEPT ![rec.sid] = SaveDoc(@, rec.doc, rec.dirty)]
                         ELSE store
       /\ Suspend(rec, [rec EXCEPT !.pc = IF ok THEN "r_saved" ELSE "r_failed",
                                   !.dirty = IF ok THEN {} ELSE @])
  /\ UNCHANGED <<flows, jobs, tasks, initialized, ncalls, failStreak, alive>>

\* registerSchedule after the await: cron.schedule and this.jobs.set, or the
\* rethrown error of the save.
RegisterResume(rec) ==
  /\ alive /\ rec.pc \in {"r_saved", "r_failed"}
  /\ IF rec.pc = "r_failed" THEN
       /\ Finish(rec, "threw")
       /\ UNCHANGED <<jobs, tasks>>
     ELSE
       LET s == rec.sid
           sc == Scheduled(jobs, tasks, s, rec.expr)
           r2 == [rec EXCEPT !.made = sc.jobs[s]]
       IN /\ jobs' = sc.jobs
          /\ tasks' = sc.tasks
          /\ IF r2.kind = "initialize"
               THEN Suspend(rec, [r2 EXCEPT !.pc = "i_loop", !.doc = NullDoc,
                                            !.dirty = {}, !.expr = ""])
               ELSE calls' = calls (-) SetToBag({rec}) /\ last' = Ended(r2, "registered")
  /\ UNCHANGED <<store, flows, initialized, ncalls, failStreak, alive>>

\* ------------------------------------------------------ unregisterSchedule
UnregisterSchedule(s) ==
  /\ alive
  /\ jobs[s] # 0
  /\ jobs' = Unregistered(jobs, tasks, s).jobs
  /\ tasks' = Unregistered(jobs, tasks, s).tasks
  /\ UNCHANGED <<store, flows, initialized, calls, ncalls, last, failStreak, alive>>

\* ---------------------------------------------------------- reloadSchedule
\* reloadSchedule(s): the call and its findById, which may fail.
ReloadSchedule(s) ==
  /\ MayCall
  /\ ncalls' = ncalls + 1
  /\ \E ok \in BOOLEAN :
       IF ok
         THEN Begin([NewCall("reloadSchedule", s, "l_got") EXCEPT
                       !.doc = FindById(store, flows, s),
                       !.seen = FindById(store, flows, s)])
         ELSE BeginFinish(NewCall("reloadSchedule", s, "l_got"), "threw")
  /\ UNCHANGED <<store, flows, jobs, tasks, initialized, failStreak, alive>>

\* As ReloadResume, registering the schedule whether it is enabled or not.
ReloadResumeIgnoringEnabled(rec) ==
  /\ alive /\ rec.pc = "l_got"
  /\ IF ~rec.doc.exists THEN
       /\ Finish(rec, "threw")
       /\ UNCHANGED <<jobs, tasks>>
     ELSE
       RegisterBegin(rec, rec, rec.doc, FALSE)
  /\ UNCHANGED <<store, flows, initialized, ncalls, failStreak, alive>>

\* reloadSchedule after the read.
ReloadResume(rec) ==
  /\ alive /\ rec.pc = "l_got"
  /\ IF ~rec.doc.exists THEN
       /\ Finish(rec, "threw")
       /\ UNCHANGED <<jobs, tasks>>
     ELSE IF rec.doc.enabled THEN
       RegisterBegin(rec, rec, rec.doc, FALSE)
     ELSE
       /\ jobs' = Unregistered(jobs, tasks, rec.sid).jobs
       /\ tasks' = Unregistered(jobs, tasks, rec.sid).tasks
       /\ Finish(rec, "unregistered")
  /\ UNCHANGED <<store, flows, initialized, ncalls, failStreak, alive>>

\* -------------------------------------------------------------- initialize
RECURSIVE Ascending(_)
\* The ids of a set in ascending order (the order find returns documents in).
Ascending(S) ==
  IF S = {} THEN <<>>
  ELSE LET m == CHOOSE x \in S : \A y \in S : x <= y
       IN <<m>> \o Ascending(S \ {m})

\* As FindActive, without the enabled condition.
FindActiveIgnoringEnabled(st) == {s \in DOMAIN st : st[s].exists /\ ~st[s].expired}

\* As FindActive, without the expiresAt condition.
FindActiveIgnoringExpiry(st) == {s \in DOMAIN st : st[s].exists /\ st[s].enabled}

\* FlowSchedule.find({enabled: true, $or: [{expiresAt: {$gt: new Date()}},
\* {expiresAt: null}]}): the ids of the matching documents.
FindActive(st) == {s \in DOMAIN st : st[s].exists /\ st[s].enabled /\ ~st[s].expired}

\* The ids initialize is meant to give a trigger: enabled, not expired, and
\* with a flow that resolves.
Qualifying(st, fl) ==
  {s \in DOMAIN st : st[s].exists /\ st[s].enabled /\ ~st[s].expired /\ fl[s]}

\* The documents the loop of initialize registers: those whose populated
\* flowId is not null.
ToRegister(st, fl) ==
  LET ids == Ascending({s \in FindActive(st) : fl[s]})
  IN [i \in 1..Len(ids) |-> [sid |-> ids[i], doc |-> FindById(st, fl, ids[i])]]

\* initialize(): the check of this.initialized.
Initialize ==
  /\ MayCall
  /\ ncalls' = ncalls + 1
  /\ IF initialized
       THEN BeginFinish(NewCall("initialize", 0, "i_find"), "noop")
       ELSE Begin(NewCall("initialize", 0, "i_find"))
  /\ UNCHANGED <<store, flows, jobs, tasks, initialized, failStreak, alive>>

\* The find of initialize: the snapshot it loads, or a store error (rethrown).
InitializeFind(rec) ==
  /\ alive /\ rec.pc = "i_find"
  /\ \E ok \in BOOLEAN :
       IF ok THEN Suspend(rec, [rec EXCEPT !.pc = "i_loop",
                                           !.list = ToRegister(store, flows),
                                           !.loaded = Qualifying(store, flows)])
             ELSE Finish(rec, "threw")
  /\ UNCHANGED <<store, flows, jobs, tasks, initialized, ncalls, failStreak, alive>>

\* One turn of the loop of initialize, or its end: this.initialized = true.
InitializeLoop(rec) ==
  /\ alive /\ rec.pc = "i_loop"
  /\ IF rec.list = <<>> THEN
       /\ initialized' = TRUE
       /\ Finish(rec, "initialized")
       /\ UNCHANGED <<jobs, tasks>>
     ELSE
       /\ RegisterBegin(rec, [rec EXCEPT !.sid = Head(rec.list).sid,
                                         !.list = Tail(rec.list)],
                        Head(rec.list).doc, FALSE)
       /\ UNCHANGED initialized
  /\ UNCHANGED <<store, flows, ncalls, failStreak, alive>>

\* ---------------------------------------------------- executeScheduledFlow
\* The catch block up to its save, entered by the call suspended as rec, with
\* document doc and modified paths dirty, for an error with message m.
Catch(rec, doc, dirty, m) ==
  LET s == rec.sid
      d1 == FailurePause(FailureUpdate(doc, Now, m), Now, m)
      un == IF TooManyFailures(d1) THEN Unregistered(jobs, tasks, s)
                                   ELSE [jobs |-> jobs, tasks |-> tasks]
  IN /\ jobs' = un.jobs
     /\ tasks' = un.tasks
     /\ Suspend(rec, [rec EXCEPT !.pc = "f_failsave", !.doc = d1,
                                 !.dirty = dirty \cup Modified(doc, d1),
                                 !.err = m])

\* A firing: the callback of live task t calls executeScheduledFlow(s), or the
\* method is called directly (t = 0).
Fire(s, t) ==
  /\ MayCall
  /\ t = 0 \/ (t \in 1..Len(tasks) /\ tasks[t].live /\ tasks[t].sid = s)
  /\ ncalls' = ncalls + 1
  /\ Begin([NewCall("executeScheduledFlow", s, "f_read") EXCEPT !.task = t])
  /\ UNCHANGED <<store, flows, jobs, tasks, initialized, failStreak, alive>>

\* The findById of the handler: the document, or a store error, which the
\* catch block swallows because `schedule` is still undefined.
FireRead(rec) ==
  /\ alive /\ rec.pc = "f_read"
  /\ \E ok \in BOOLEAN :
       IF ok THEN Suspend(rec, [rec EXCEPT !.pc = "f_got",
                                           !.doc = FindById(store, flows, rec.sid),
                                           !.seen = FindById(store, flows, rec.sid)])
             ELSE Finish(rec, "read_failed")
  /\ UNCHANGED <<store, flows, jobs, tasks, initialized, ncalls, failStreak, alive>>

\* The handler after the read: the enabled check, the concurrency guard and
\* the running mark.
FireCheck(rec) ==
  /\ alive /\ rec.pc = "f_got"
  /\ LET g == Guard(rec.doc)
         d1 == [rec.doc EXCEPT !.running = TRUE]
     IN IF g = "proceed"
          THEN Suspend(rec, [rec EXCEPT !.pc = "f_mark", !.doc = d1,
                                        !.dirty = Modified(rec.doc, d1)])
          ELSE Finish(rec, g)
  /\ UNCHANGED <<store, flows, jobs, tasks, initialized, ncalls, failStreak, alive>>

\* The save of the running mark and what follows it: the flow check and the
\* start of the flow run, or the catch block.
FireMark(rec) ==
  /\ alive /\ rec.pc = "f_mark"
  /\ LET s == rec.sid
     IN \E ok \in BOOLEAN :
          IF ~ok THEN
            /\ Catch(rec, rec.doc, rec.dirty, "store write failed")
            /\ UNCHANGED store
          ELSE IF ~rec.doc.flow THEN
            /\ store' = [store EXCEPT ![s] = SaveDoc(@, rec.doc, rec.dirty)]
            /\ Catch(rec, rec.doc, {}, "Flow not found")
          ELSE
            /\ store' = [store EXCEPT ![s] = SaveDoc(@, rec.doc, rec.dirty)]
            /\ Suspend(rec, [rec EXCEPT !.pc = "f_run", !.dirty = {}, !.ran = TRUE])
            /\ UNCHANGED <<jobs, tasks>>
  /\ UNCHANGED <<flows, initialized, ncalls, failStreak, alive>>

\* How a flow run settles: it resolves, or rejects with the error of a node
\* method or with the GraphError of a cyclic node graph.
FlowOutcomes == {"ok", "node failed", "GraphError"}

\* flowExecutor.executeFlow settles: the success branch up to its save, or the
\* catch block.
FlowSettles(rec) ==
  /\ alive /\ rec.pc = "f_run"
  /\ LET s == rec.sid
     IN \E res \in FlowOutcomes :
          IF res = "ok" THEN
            LET d1 == SuccessPause(SuccessUpdate(rec.doc, Now))
                un == IF MaxReached(d1) THEN Unregistered(jobs, tasks, s)
                                        ELSE [jobs |-> jobs, tasks |-> tasks]
            IN /\ jobs' = un.jobs
               /\ tasks' = un.tasks
               /\ Suspend(rec, [rec EXCEPT !.pc = "f_succsave", !.doc = d1,
                                           !.dirty = rec.dirty \cup Modified(rec.doc, d1)])
          ELSE Catch(rec, rec.doc, rec.dirty, res)
  /\ UNCHANGED <<store, flows, initialized, ncalls, failStreak, alive>>

\* The save of the success branch; when it fails the catch block runs.
SuccessSave(rec) ==
  /\ alive /\ rec.pc = "f_succsave"
  /\ LET s == rec.sid
     IN \E ok \in BOOLEAN :
          IF ok THEN
            /\ store' = [store EXCEPT ![s] = SaveDoc(@, rec.doc, rec.dirty)]
            /\ Finish(rec, "success")
            /\ failStreak' = [failStreak EXCEPT ![s] = 0]
            /\ UNCHANGED <<jobs, tasks>>
          ELSE
            /\ Catch(rec, rec.doc, rec.dirty, "store write failed")
            /\ UNCHANGED <<store, failStreak>>
  /\ UNCHANGED <<flows, initialized, ncalls, alive>>

\* The save of the catch block.  When it fails the error leaves the handler;
\* a rejection nobody handles ends the process (unhandledRejection).
FailureSave(rec) ==
  /\ alive /\ rec.pc = "f_failsave"
  /\ LET s == rec.sid
     IN \E ok \in BOOLEAN :
          IF ok THEN
            /\ store' = [store EXCEPT ![s] = SaveDoc(@, rec.doc, rec.dirty)]
            /\ Finish(rec, "failed")
            /\ UNCHANGED alive
          ELSE
            /\ Finish(rec, "escaped")
            /\ \E handled \in BOOLEAN : alive' = handled
            /\ UNCHANGED store
  /\ failStreak' = [failStreak EXCEPT ![rec.sid] = @ + 1]
  /\ UNCHANGED <<flows, jobs, tasks, initialized, ncalls>>

\* --------------------------------------------- the flow run, node by node
\* flowExecutor.executeFlow is entered by the firing suspended as rec, with
\* the flow the schedule refers to.
ExecuteFlow(rec) ==
  /\ alive /\ rec.pc = "f_run" /\ rec.run.status = "idle"
  /\ \E g \in Graphs, b \in [Nodes -> Behaviours] :
       Suspend(rec, [rec EXCEPT !.run = Started(g, b)])
  /\ UNCHANGED <<store, flows, jobs, tasks, initialized, ncalls, failStreak, alive>>

\* await registry.getFunction(...) in the loop of executeFlow.
ResolveMethod(rec) ==
  /\ alive /\ rec.pc = "f_run"
  /\ rec.run.status = "running" /\ rec.run.phase = "resolve"
  /\ Suspend(rec, [rec EXCEPT !.run = Resolved(rec.run)])
  /\ UNCHANGED <<store, flows, jobs, tasks, initialized, ncalls, failStreak, alive>>

\* await method({nodeData, inputs, context}) and results[node.id] = result.
InvokeMethod(rec) ==
  /\ alive /\ rec.pc = "f_run"
  /\ rec.run.status = "running" /\ rec.run.phase = "invoke"
  /\ Suspend(rec, [rec EXCEPT !.run = Invoked(rec.run)])
  /\ UNCHANGED <<store, flows, jobs, tasks, initialized, ncalls, failStreak, alive>>

\* The error executeFlow rejects with, as the scheduler's catch block sees it.
Rejection(e) == IF e.error.kind = "GraphError" THEN "GraphError" ELSE "node failed"

\* `await flowExecutor.executeFlow(...)` settles as the run ended: it
\* resolves after a successful run and rejects after a failed one.
FlowReturns(rec) ==
  /\ rec.run.status \in {"success", "failed"}
  /\ FlowSettles(rec)
  /\ \E r2 \in BagToSet(calls') :
       IF rec.run.status = "success"
         THEN r2.pc = "f_succsave"
         ELSE r2.pc = "f_failsave" /\ r2.err = Rejection(rec.run)

\* ------------------------------------------------------------- environment
\* The API layer disables a schedule.
DisableSchedule(s) ==
  /\ alive /\ store[s].exists /\ store[s].enabled
  /\ store' = [store EXCEPT ![s].enabled = FALSE]
  /\ UNCHANGED <<flows, jobs, tasks, initialized, calls, ncalls, last, failStreak, alive>>

\* The API layer updates the definition of a schedule.
UpdateSchedule(s, d) ==
  /\ alive /\ store[s].exists /\ store[s].def # d
  /\ store' = [store EXCEPT ![s].def = d]
  /\ UNCHANGED <<flows, jobs, tasks, initialized, calls, ncalls, last, failStreak, alive>>

\* ----------------------------------------------------------- specification
Next ==
  \/ Initialize
  \/ \E rec \in InFlight : InitializeFind(rec)
  \/ \E rec \in InFlight : InitializeLoop(rec)
  \/ \E s \in DOMAIN store : RegisterSchedule(s)
  \/ \E rec \in InFlight : RegisterSave(rec)
  \/ \E rec \in InFlight : RegisterResume(rec)
  \/ \E s \in DOMAIN store : UnregisterSchedule(s)
  \/ \E s \in DOMAIN store : ReloadSchedule(s)
  \/ \E rec \in InFlight : ReloadResume(rec)
  \/ \E s \in DOMAIN store, t \in 0..Len(tasks) : Fire(s, t)
  \/ \E rec \in InFlight : FireRead(rec)
  \/ \E rec \in InFlight : FireCheck(rec)
  \/ \E rec \in InFlight : FireMark(rec)
  \/ \E rec \in InFlight : FlowSettles(rec)
  \/ \E rec \in InFlight : SuccessSave(rec)
  \/ \E rec \in InFlight : FailureSave(rec)
  \/ \E s \in DOMAIN store : DisableSchedule(s)

Spec == Init /\ [][Next]_vars

\* The service used by one caller at a time: a call is made only when no
\* other call is in flight.
NextSeq == Next /\ (ncalls' # ncalls => calls = EmptyBag)

SpecSeq == Init /\ [][NextSeq]_vars

\* ------------------------------------------------------------ process start
\* The service at process start: the store holds two schedules, each enabled
\* or disabled, expired or not, with or without a flow that resolves, and
\* initialize() is the one call made.  The API layer may disable a schedule
\* while initialize is suspended.
StartupSchedules == {1, 2}

StartupDocs ==
  {[NewSchedule(d, nx, 0, ex) EXCEPT !.enabled = en] :
     d \in InitDefs, nx \in InitNextAt, ex \in BOOLEAN, en \in BOOLEAN}

InitStartup ==
  /\ store \in [StartupSchedules -> StartupDocs]
  /\ flows \in [StartupSchedules -> BOOLEAN]
  /\ jobs = [s \in StartupSchedules |-> 0]
  /\ tasks = <<>>
  /\ initialized = FALSE
  /\ calls = EmptyBag
  /\ ncalls = 0
  /\ last = Ended(NewCall("none", 0, "idle"), "")
  /\ failStreak = [s \in StartupSchedules |-> 0]
  /\ alive = TRUE

NextStartup ==
  \/ ncalls = 0 /\ Initialize
  \/ \E rec \in InFlight : InitializeFind(rec)
  \/ \E rec \in InFlight : InitializeLoop(rec)
  \/ \E rec \in InFlight : RegisterSave(rec)
  \/ \E rec \in InFlight : RegisterResume(rec)
  \/ \E s \in DOMAIN store : DisableSchedule(s)

SpecStartup == InitStartup /\ [][NextStartup]_vars

\* ------------------------------------------------ progress of the firings
\* No store write is rejected in this step, and the process stays up.
WritesSucceed ==
  /\ \A r2 \in BagToSet(calls') :
       CopiesIn(r2, calls') > CopiesIn(r2, calls)
       => r2.err # "store write failed" /\ r2.pc # "r_failed"
  /\ last' # last => last'.out # "escaped"
  /\ alive' = alive

NextLive == Next /\ WritesSucceed

\* A firing in flight goes on: the promise it awaits settles, and the event
\* loop runs its continuation.
FiringStep ==
  \E rec \in InFlight :
    /\ \/ FireRead(rec) \/ FireCheck(rec) \/ FireMark(rec)
       \/ FlowSettles(rec) \/ SuccessSave(rec) \/ FailureSave(rec)
    /\ WritesSucceed

\* The service where every store write succeeds, the process does not
\* crash, and every awaited promise of a firing settles.
SpecLive == Init /\ [][NextLive]_vars /\ WF_vars(FiringStep)

\* ---------------------------------------------------- firings and reloads
\* Firings of a schedule while the API layer forces reloads of it: no other
\* method of the service is called.
NextReload ==
  \/ \E s \in DOMAIN store : ReloadSchedule(s)
  \/ \E rec \in InFlight : ReloadResume(rec)
  \/ \E rec \in InFlight : RegisterSave(rec)
  \/ \E rec \in InFlight : RegisterResume(rec)
  \/ \E s \in DOMAIN store, t \in 0..Len(tasks) : Fire(s, t)
  \/ \E rec \in InFlight : FireRead(rec)
  \/ \E rec \in InFlight : FireCheck(rec)
  \/ \E rec \in InFlight : FireMark(rec)
  \/ \E rec \in InFlight : FlowSettles(rec)
  \/ \E rec \in InFlight : SuccessSave(rec)
  \/ \E rec \in InFlight : FailureSave(rec)

SpecReload == Init /\ [][NextReload]_vars

\* ------------------------------------------- registration after an update
\* registerSchedule and unregisterSchedule on a schedule whose definition
\* the API layer updates.
InitUpdate ==
  /\ store \in [Schedules -> {NewSchedule(d, nx, 0, FALSE) :
                                d \in InitDefs, nx \in InitNextAt}]
  /\ flows = [s \in Schedules |-> TRUE]
  /\ jobs = [s \in Schedules |-> 0]
  /\ tasks = <<>>
  /\ initialized = FALSE
  /\ calls = EmptyBag
  /\ ncalls = 0
  /\ last = Ended(NewCall("none", 0, "idle"), "")
  /\ failStreak = [s \in Schedules |-> 0]
  /\ alive = TRUE

NextUpdate ==
  \/ \E s \in DOMAIN store : RegisterSchedule(s)
  \/ \E rec \in InFlight : RegisterSave(rec)
  \/ \E rec \in InFlight : RegisterResume(rec)
  \/ \E s \in DOMAIN store : UnregisterSchedule(s)
  \/ \E s \in DOMAIN store, d \in InitDefs : UpdateSchedule(s, d)

SpecUpdate == InitUpdate /\ [][NextUpdate]_vars

\* ---------------------------------------------------------- one flow run
\* One firing of an enabled schedule, its flow run followed node by node.
InitFlow ==
  /\ store = [s \in Schedules |-> NewSchedule(IntervalMinutes15, 2, 0, FALSE)]
  /\ flows = [s \in Schedules |-> TRUE]
  /\ jobs = [s \in Schedules |-> 0]
  /\ tasks = <<>>
  /\ initialized = FALSE
  /\ calls = EmptyBag
  /\ ncalls = 0
  /\ last = Ended(NewCall("none", 0, "idle"), "")
  /\ failStreak = [s \in Schedules |-> 0]
  /\ alive = TRUE

NextFlow ==
  \/ \E s \in DOMAIN store : ncalls = 0 /\ Fire(s, 0)
  \/ \E rec \in InFlight : FireRead(rec)
  \/ \E rec \in InFlight : FireCheck(rec)
  \/ \E rec \in InFlight : FireMark(rec)
  \/ \E rec \in InFlight : ExecuteFlow(rec)
  \/ \E rec \in InFlight : ResolveMethod(rec)
  \/ \E rec \in InFlight : InvokeMethod(rec)
  \/ \E rec \in InFlight : FlowReturns(rec)
  \/ \E rec \in InFlight : SuccessSave(rec)
  \/ \E rec \in InFlight : FailureSave(rec)

SpecFlow == InitFlow /\ [][NextFlow]_vars

\* ------------------------------------------------------------- translation
\* Registration of schedules of every kind of recurrence: the definition is
\* drawn from CronDefs and registerSchedule translates it; the trigger it
\* creates carries the expression.
IntervalValues == {1, 2, 15, 30}
IntervalUnits == {"minutes", "hours", "days", "weeks"}
CronExpressions == {"0 9 * * 1-5", "*/5 * * * *", "15 14 1 * *"}
Times == {"09:30", "00:05", "14:00"}
DaysOfWeek == {<<1>>, <<1, 3, 5>>, <<0, 6>>}
DaysOfMonth == {1, 15, 31}

IntervalDefs ==
  {[UnknownType EXCEPT !.scheduleType = "interval", !.intervalValue = n,
                       !.intervalUnit = u] : n \in IntervalValues, u \in IntervalUnits}

CronTypeDefs ==
  {[UnknownType EXCEPT !.scheduleType = "cron", !.cronExpression = e] :
     e \in CronExpressions}

DailyDefs ==
  {[UnknownType EXCEPT !.scheduleType = "daily", !.time = t] : t \in Times}

WeeklyDefs ==
  {[UnknownType EXCEPT !.scheduleType = "weekly", !.time = t, !.daysOfWeek = w] :
     t \in Times, w \in DaysOfWeek}

MonthlyDefs ==
  {[UnknownType EXCEPT !.scheduleType = "monthly", !.time = t, !.dayOfMonth = m] :
     t \in Times, m \in DaysOfMonth}

CronDefs ==
  IntervalDefs \cup CronTypeDefs \cup DailyDefs \cup WeeklyDefs \cup MonthlyDefs
    \cup {UnknownType}

InitCron ==
  /\ store \in [Schedules -> {NewSchedule(d, nx, 0, FALSE) :
                                d \in CronDefs, nx \in InitNextAt}]
  /\ flows = [s \in Schedules |-> TRUE]
  /\ jobs = [s \in Schedules |-> 0]
  /\ tasks = <<>>
  /\ initialized = FALSE
  /\ calls = EmptyBag
  /\ ncalls = 0
  /\ last = Ended(NewCall("none", 0, "idle"), "")
  /\ failStreak = [s \in Schedules |-> 0]
  /\ alive = TRUE

NextCron ==
  \/ \E s \in DOMAIN store : RegisterSchedule(s)
  \/ \E rec \in InFlight : RegisterSave(rec)
  \/ \E rec \in InFlight : RegisterResume(rec)
  \/ \E s \in DOMAIN store : UnregisterSchedule(s)

SpecCron == InitCron /\ [][NextCron]_vars

\* ================================================================== claims
\* The call suspended as rec takes this step.
Acts(rec) == CopiesIn(rec, calls') < CopiesIn(rec, calls)

\* The firings of schedule s that passed the concurrency guard and whose flow
\* run has started and whose outcome is not yet persisted.
Executions(s) ==
  {rec \in InFlight : /\ rec.kind = "executeScheduledFlow"
                      /\ rec.sid = s
                      /\ rec.pc \in {"f_run", "f_succsave", "f_failsave"}
                      /\ rec.ran}

ExecutionsInFlight(s) ==
  LET RECURSIVE Sum(_)
      Sum(S) == IF S = {} THEN 0
                ELSE LET x == CHOOSE y \in S : TRUE
                     IN CopiesIn(x, calls) + Sum(S \ {x})
  IN Sum(Executions(s))

\* C1: in every reachable state at most one created-and-not-stopped trigger
\* exists per schedule id, whatever the interleaving of the service's methods.
C1_AtMostOneLiveTrigger ==
  \A s \in Schedules : Cardinality(LiveTasks(s)) <= 1

\* C2: for every schedule at most one flow execution started by
\* executeScheduledFlow is in flight at any time (so that a true
\* isCurrentlyRunning flag stands for exactly one execution).
C2_AtMostOneExecutionInFlight ==
  \A s \in Schedules : ExecutionsInFlight(s) <= 1

\* C3: a firing that reads the schedule with isCurrentlyRunning = true ends at
\* the guard: the flow executor is not invoked, nothing is written to the
\* store, and the persisted fields and the trigger registry are unchanged.
C3_RunningSkipIsNoOp ==
  [][\A rec \in InFlight :
       (/\ rec.pc = "f_got"
        /\ rec.doc.exists /\ rec.doc.enabled /\ rec.doc.running
        /\ Acts(rec))
       => /\ calls' = calls (-) SetToBag({rec})
          /\ last' = Ended(rec, "skipped_running")
          /\ ~last'.ran
          /\ UNCHANGED <<store, flows, jobs, tasks, initialized, failStreak>>]_vars

\* A firing has been skipped by the concurrency guard.
C3_Witness ==
  /\ last.kind = "executeScheduledFlow"
  /\ last.out = "skipped_running"

\* C4: no exception escapes executeScheduledFlow, whatever the outcome of the
\* store reads and writes and of the flow run: every firing returns normally.
C4_NoExceptionEscapes ==
  last.kind = "executeScheduledFlow" => last.out # "escaped"

\* C5: a firing that finds the schedule missing, its flow missing, or the
\* schedule disabled is a silent skip: it ends at once, starts no execution
\* and changes no persisted field.
C5_MissingOrDisabledIsSilentSkip ==
  [][\A rec \in InFlight :
       (/\ rec.pc = "f_got"
        /\ (~rec.doc.exists \/ ~rec.doc.flow \/ ~rec.doc.enabled)
        /\ Acts(rec))
       => /\ calls' = calls (-) SetToBag({rec})
          /\ ~last'.ran
          /\ UNCHANGED <<store, jobs, tasks, failStreak>>]_vars

\* C6: after three failed firings of a schedule with no successful firing in
\* between, the persisted schedule is disabled with a non-empty pausedReason
\* and the registry holds no trigger for it.
C6_ThreeFailuresDisable ==
  \A s \in Schedules :
    (failStreak[s] >= 3 /\ store[s].exists)
      => /\ ~store[s].enabled
         /\ store[s].paused # ""
         /\ jobs[s] = 0

\* C7: in every persisted state, consecutiveFailures >= 3 implies enabled =
\* false and a non-empty pausedReason.
C7_FailuresImplyDisabled ==
  \A s \in Schedules :
    store[s].fails >= 3 => (~store[s].enabled /\ store[s].paused # "")

\* The scheduler has recorded a third consecutive failure.
C7_Witness ==
  \E s \in Schedules : store[s].exists /\ store[s].fails >= 3

\* C8: for a schedule with maxExecutions set, executionCount never exceeds
\* maxExecutions and executionCount >= maxExecutions implies enabled = false
\* with pausedReason set; the successful firing that reaches the limit
\* unregisters the trigger, and a firing that reads a schedule at its limit
\* starts no flow execution.
C8_PersistedLimit ==
  \A s \in Schedules :
    store[s].max # 0
      => /\ store[s].count <= store[s].max
         /\ store[s].count >= store[s].max
              => (~store[s].enabled /\ store[s].paused # "")

C8_LimitStep ==
  \A rec \in InFlight :
    /\ (rec.pc = "f_run" /\ Acts(rec) /\ rec.doc.max # 0
        /\ rec.doc.count + 1 >= rec.doc.max
        /\ \E r2 \in BagToSet(calls') :
             r2.pc = "f_succsave" /\ CopiesIn(r2, calls') > CopiesIn(r2, calls))
         => jobs'[rec.sid] = 0
    /\ (rec.pc = "f_got" /\ Acts(rec) /\ rec.doc.exists /\ rec.doc.max # 0
        /\ rec.doc.count >= rec.doc.max)
         => (calls' = calls (-) SetToBag({rec}) /\ ~last'.ran /\ store' = store)

C8_MaxExecutions == [](C8_PersistedLimit) /\ [][C8_LimitStep]_vars

\* A schedule has reached its execution limit and a later firing was skipped.
C8_Witness ==
  \E s \in Schedules :
    /\ store[s].max # 0 /\ store[s].count >= store[s].max
    /\ last.kind = "executeScheduledFlow" /\ last.out = "skipped_disabled"

\* C9: a second registerSchedule call for an id that has a trigger stops the
\* first handle and removes it; the registry then holds the handle the second
\* call created, and it is the only live trigger of that id.
C9_SecondRegistrationSupersedes ==
  [][(/\ last' # last
      /\ last'.kind = "registerSchedule"
      /\ last'.out = "registered"
      /\ last'.old # 0)
     => /\ ~tasks'[last'.old].live
        /\ last'.made # last'.old
        /\ jobs'[last'.sid] = last'.made
        /\ {i \in 1..Len(tasks') : tasks'[i].sid = last'.sid /\ tasks'[i].live}
             = {last'.made}]_vars

\* A registerSchedule call has replaced an existing trigger.
C9_Witness ==
  /\ last.kind = "registerSchedule"
  /\ last.out = "registered"
  /\ last.old # 0

\* C10: a call to initialize() made after an earlier call, whether that one
\* has returned or is still awaiting the store, is a no-op: it reads no
\* schedules, registers nothing and writes nothing.
C10_SecondInitializeIsNoOp ==
  [][(/\ Initialize
      /\ (initialized \/ \E rec \in InFlight : rec.kind = "initialize"))
     => /\ calls' = calls
        /\ last' = Ended(NewCall("initialize", 0, "i_find"), "noop")]_vars

\* C11: once initialize() has completed, the schedule ids with a live trigger
\* are exactly the ids that were enabled, not expired and had a resolvable
\* flow when initialize loaded the schedules, each with one trigger.
C11_InitializeRegistersQualifying ==
  (last.kind = "initialize" /\ last.out = "initialized")
    => /\ {s \in DOMAIN store : LiveTasks(s) # {}} = last.loaded
       /\ \A s \in DOMAIN store : Cardinality(LiveTasks(s)) <= 1
       /\ \A s \in DOMAIN store : LiveTasks(s) # {} => jobs[s] \in LiveTasks(s)

\* initialize() has completed with a trigger for a qualifying schedule and
\* none for an enabled schedule that had expired.
C11_Witness ==
  /\ last.kind = "initialize" /\ last.out = "initialized"
  /\ \E s, t \in DOMAIN store :
       /\ s \in last.loaded /\ LiveTasks(s) # {}
       /\ store[t].enabled /\ store[t].expired /\ flows[t] /\ LiveTasks(t) = {}

\* C12: when reloadSchedule(id) completes, the id has a live trigger if and
\* only if the schedule it read from the store was enabled: an enabled schedule
\* ends with exactly one trigger, created by this call, and a disabled one
\* with none.
C12_ReloadStep ==
  \A rec \in InFlight :
    (/\ rec.kind = "reloadSchedule" /\ Acts(rec)
     /\ CopiesIn(rec, calls) = 1
     /\ last'.kind = "reloadSchedule"
     /\ last'.out \in {"registered", "unregistered"})
    => LET s == rec.sid
           live == {i \in 1..Len(tasks') : tasks'[i].sid = s /\ tasks'[i].live}
       IN IF rec.seen.enabled
            THEN /\ last'.out = "registered"
                 /\ Len(tasks') = Len(tasks) + 1
                 /\ live = {Len(tasks')}
                 /\ jobs'[s] = Len(tasks')
            ELSE /\ last'.out = "unregistered"
                 /\ live = {}
                 /\ jobs'[s] = 0

C12_ReloadMatchesEnabled == [][C12_ReloadStep]_vars

\* A reload of a disabled schedule has removed the trigger the schedule had.
C12_Witness ==
  /\ last.kind = "reloadSchedule" /\ last.out = "unregistered"
  /\ \E i \in 1..Len(tasks) : tasks[i].sid = last.sid /\ ~tasks[i].live

\* A schedule the scheduler has disabled itself: after three consecutive
\* failures or on reaching maxExecutions.
AutoDisabled(doc) == doc.exists /\ ~doc.enabled /\ doc.paused # ""

\* The step creates a trigger for schedule s.
CreatesTrigger(s) ==
  /\ Len(tasks') = Len(tasks) + 1
  /\ tasks'[Len(tasks')].sid = s

\* The step is taken by an explicit registerSchedule or reloadSchedule call.
ExplicitRegistration ==
  \/ \E rec \in InFlight :
       Acts(rec) /\ rec.kind \in {"registerSchedule", "reloadSchedule"}
  \/ ncalls' = ncalls + 1 /\ last'.kind = "registerSchedule"

EndsWith(rec, o) ==
  /\ rec.kind = "executeScheduledFlow"
  /\ Acts(rec)
  /\ calls' = calls (-) SetToBag({rec})
  /\ last' = Ended(rec, o)

\* C14: a firing whose flow run succeeded persists executionCount one above
\* the value it read, lastExecutionStatus 'success', consecutiveFailures 0,
\* lastExecutedAt at its completion time, isCurrentlyRunning false and no
\* currentExecutionId.
C14_SuccessStep ==
  \A rec \in InFlight :
    (rec.pc = "f_succsave" /\ EndsWith(rec, "success"))
    => LET d == store'[rec.sid]
       IN /\ rec.ran
          /\ d.count = rec.seen.count + 1
          /\ d.status = "success"
          /\ d.fails = 0
          /\ d.lastAt > rec.seen.lastAt /\ d.lastAt > 1 /\ d.lastAt <= Now
          /\ ~d.running
          /\ d.curExec = 0

C14_SuccessPersisted == [][C14_SuccessStep]_vars

\* A success has been persisted for a schedule that had failures recorded.
C14_Witness ==
  /\ last.kind = "executeScheduledFlow" /\ last.out = "success"
  /\ failStreak[last.sid] = 0
  /\ store[last.sid].status = "success" /\ store[last.sid].lastAt > 1
  /\ store[last.sid].count > 0

\* The errors with which a flow run fails.
RunErrors == FlowOutcomes \ {"ok"}

\* C15: a firing whose flow run failed and whose failure count stays below 3
\* persists consecutiveFailures one above the value it read,
\* lastExecutionStatus 'failed', lastExecutedAt, isCurrentlyRunning false, the
\* executionCount it read and no change of enabled; neither its catch block
\* nor its save touches the registry, so the trigger keeps its expression.
C15_FailureStep ==
  \A rec \in InFlight :
    /\ (/\ rec.pc = "f_failsave" /\ EndsWith(rec, "failed")
        /\ rec.ran /\ rec.err \in RunErrors
        /\ rec.doc.fails < FailureLimit)
       => LET d == store'[rec.sid]
          IN /\ d.fails = rec.seen.fails + 1
             /\ d.status = "failed"
             /\ d.lastAt > rec.seen.lastAt /\ d.lastAt > 1 /\ d.lastAt <= Now
             /\ ~d.running
             /\ d.count = rec.seen.count
             /\ rec.doc.enabled /\ d.enabled = store[rec.sid].enabled
             /\ d.paused = store[rec.sid].paused
             /\ UNCHANGED <<jobs, tasks>>
    /\ (/\ rec.pc = "f_run" /\ Acts(rec)
        /\ rec.seen.fails + 1 < FailureLimit
        /\ \E r2 \in BagToSet(calls') :
             r2.pc = "f_failsave" /\ CopiesIn(r2, calls') > CopiesIn(r2, calls))
       => UNCHANGED <<jobs, tasks>>

C15_FailurePersisted == [][C15_FailureStep]_vars

\* A first failure has been persisted by a firing made by a trigger, and the
\* trigger is still live.
C15_Witness ==
  /\ last.kind = "executeScheduledFlow" /\ last.out = "failed" /\ last.ran
  /\ last.task # 0 /\ tasks[last.task].live /\ jobs[last.sid] = last.task
  /\ store[last.sid].fails = 1 /\ store[last.sid].enabled

\* C16: when a firing that ran the flow ends, on success or on failure, and
\* has left the schedule enabled, the persisted nextExecutionAt is the value
\* the calculator gave for the firing's completion time, and no longer the
\* value the firing read.
C16_RecomputeStep ==
  \A rec \in InFlight :
    (/\ rec.pc \in {"f_succsave", "f_failsave"}
     /\ EndsWith(rec, "success") \/ EndsWith(rec, "failed")
     /\ rec.ran /\ rec.doc.enabled)
    => LET d == store'[rec.sid]
       IN /\ d.lastAt > 1 /\ d.lastAt <= Now
          /\ d.nextAt = calculateNextExecution(d, d.lastAt)
          /\ d.nextAt # rec.seen.nextAt

C17_GraphErrorNotCounted ==
  [][\A rec \in InFlight :
       (/\ rec.pc = "f_failsave" /\ EndsWith(rec, "failed")
        /\ rec.ran /\ rec.err = "GraphError")
       => store'[rec.sid].fails = rec.seen.fails]_vars

\* Schedule s is disabled in the store or has no live trigger.
Stopped(s) == ~store[s].enabled \/ LiveTasks(s) = {}

\* The firing suspended as rec can take its next step.
CanStep(rec) ==
  ENABLED (\/ FireRead(rec) \/ FireCheck(rec) \/ FireMark(rec)
           \/ FlowSettles(rec) \/ SuccessSave(rec) \/ FailureSave(rec))

\* While the process lives, every firing in flight can go on, whatever has
\* been disabled or unregistered meanwhile.
C18_NotCancelled ==
  \A rec \in InFlight : (alive /\ rec.kind = "executeScheduledFlow") => CanStep(rec)

\* A firing that ran the flow and ends after its schedule was disabled or
\* unregistered persists its outcome with isCurrentlyRunning cleared.
C18_OutcomeStep ==
  \A rec \in InFlight :
    (/\ rec.ran /\ Stopped(rec.sid)
     /\ EndsWith(rec, "success") \/ EndsWith(rec, "failed"))
    => LET d == store'[rec.sid]
       IN /\ ~d.running
          /\ d.lastAt > 1
          /\ rec.pc = "f_succsave" => d.count = rec.seen.count + 1
          /\ (rec.pc = "f_failsave" /\ rec.err \in RunErrors)
               => d.fails = rec.seen.fails + 1

\* C18: disabling or unregistering a schedule does not cancel a firing of it
\* that is in flight: the firing can always go on, and when it ends it
\* persists its success or failure with isCurrentlyRunning cleared.
C18_InFlightNotCancelled == [](C18_NotCancelled) /\ [][C18_OutcomeStep]_vars

\* A firing made by a trigger has persisted its success although the API
\* layer disabled the schedule and its trigger was stopped while it ran.
C18_Witness ==
  /\ last.kind = "executeScheduledFlow" /\ last.out = "success" /\ last.ran
  /\ last.task # 0 /\ ~tasks[last.task].live /\ jobs[last.sid] = 0
  /\ ~store[last.sid].enabled /\ store[last.sid].paused = ""
  /\ store[last.sid].status = "success" /\ ~store[last.sid].running

\* C19: whenever getStats() is called, totalSchedules is the number of ids in
\* activeSchedules and activeSchedules is exactly the set of ids that have a
\* live trigger.  (getStats reads this.jobs and writes nothing.)
C19_StatsExact ==
  LET st == getStats(jobs)
  IN /\ st.totalSchedules = Cardinality(st.activeSchedules)
     /\ st.activeSchedules = {s \in DOMAIN store : LiveTasks(s) # {}}

\* A trigger has been replaced: one task stopped, one live, one id reported.
C19_Witness ==
  /\ getStats(jobs).totalSchedules = 1
  /\ Len(tasks) = 2 /\ ~tasks[1].live /\ tasks[2].live

\* The decimal numerals of the interval values.
Numeral == (1 :> "1") @@ (2 :> "2") @@ (15 :> "15") @@ (30 :> "30")

\* The expression the spec gives for an interval or cron-type definition.
C20_Expected(d) ==
  IF d.scheduleType = "cron" THEN d.cronExpression
  ELSE IF d.intervalUnit = "minutes" THEN "*/" \o Numeral[d.intervalValue] \o " * * * *"
  ELSE IF d.intervalUnit = "hours" THEN "0 */" \o Numeral[d.intervalValue] \o " * * *"
  ELSE "0 0 */" \o Numeral[d.intervalValue] \o " * *"

\* C20: every trigger registered for an interval schedule of N minutes, hours
\* or days carries "*/N * * * *", "0 */N * * *" or "0 0 */N * *" (so
\* "*/15 * * * *" for 15 minutes), and every trigger registered for a
\* cron-type schedule carries the stored expression unmodified.
C20_IntervalAndCronMapping ==
  \A i \in 1..Len(tasks) :
    LET d == store[tasks[i].sid].def
    IN /\ d = IntervalMinutes15 => tasks[i].cron = "*/15 * * * *"
       /\ (\/ d.scheduleType = "cron"
           \/ d.scheduleType = "interval" /\ d.intervalUnit \in {"minutes", "hours", "days"})
          => tasks[i].cron = C20_Expected(d)

\* A schedule of every 2 hours has been registered with its expression.
C20_Witness ==
  \E i \in 1..Len(tasks) :
    /\ store[tasks[i].sid].def.scheduleType = "interval"
    /\ store[tasks[i].sid].def.intervalUnit = "hours"
    /\ store[tasks[i].sid].def.intervalValue = 2
    /\ tasks[i].cron = "0 */2 * * *"

\* The minute and hour of the times of day, as numbers written without
\* leading zeros.
MinuteOf == ("09:30" :> "30") @@ ("00:05" :> "5") @@ ("14:00" :> "0")
HourOf == ("09:30" :> "9") @@ ("00:05" :> "0") @@ ("14:00" :> "14")

\* The comma-joined weekday numbers.
DaysJoined == (<<1>> :> "1") @@ (<<1, 3, 5>> :> "1,3,5") @@ (<<0, 6>> :> "0,6")

DayNumeral == (1 :> "1") @@ (15 :> "15") @@ (31 :> "31")

\* C21: every trigger registered for a weekly schedule with time "HH:MM"
\* carries the numeric minute, the numeric hour (no leading zeros), "* *" and
\* the comma-joined weekdays; for "09:30" on days 1,3,5 it is "30 9 * * 1,3,5".
C21_WeeklyMapping ==
  \A i \in 1..Len(tasks) :
    LET d == store[tasks[i].sid].def
    IN d.scheduleType = "weekly"
       => /\ tasks[i].cron = MinuteOf[d.time] \o " " \o HourOf[d.time] \o " * * "
                                \o DaysJoined[d.daysOfWeek]
          /\ (d.time = "09:30" /\ d.daysOfWeek = <<1, 3, 5>>)
               => tasks[i].cron = "30 9 * * 1,3,5"

\* C22: every trigger registered for a monthly schedule with time "HH:MM" and
\* dayOfMonth D carries the numeric minute, the numeric hour, D and "* *"; for
\* "00:05" on day 1 it is "5 0 1 * *".
C22_MonthlyMapping ==
  \A i \in 1..Len(tasks) :
    LET d == store[tasks[i].sid].def
    IN d.scheduleType = "monthly"
       => /\ tasks[i].cron = MinuteOf[d.time] \o " " \o HourOf[d.time] \o " "
                                \o DayNumeral[d.dayOfMonth] \o " * *"
          /\ (d.time = "00:05" /\ d.dayOfMonth = 1) => tasks[i].cron = "5 0 1 * *"

\* The definition has a scheduleType or an intervalUnit that is not recognized.
Unrecognized(d) ==
  \/ d.scheduleType \notin {"cron", "interval", "daily", "weekly", "monthly"}
  \/ d.scheduleType = "interval" /\ d.intervalUnit \notin {"minutes", "hours", "days"}

\* C23: a schedule with an unrecognized scheduleType or intervalUnit never
\* gets a trigger, and when registerSchedule has failed on it the error
\* toCronExpression threw is a ValidationError.
C23_ValidationError ==
  \A s \in DOMAIN store :
    Unrecognized(store[s].def)
    => /\ \A i \in 1..Len(tasks) : tasks[i].sid # s
       /\ (last.kind = "registerSchedule" /\ last.sid = s /\ last.out = "threw")
            => /\ ~toCronExpression(store[s].def).ok
               /\ toCronExpression(store[s].def).name = "ValidationError"

\* The flow runs of the firings in flight.
FlowRuns == {rec.run : rec \in {r \in InFlight : r.kind = "executeScheduledFlow"}}

\* The ids of the nodes whose method a run has invoked, in order.
InvokedNodes(e) == [i \in 1..Len(e.invoked) |-> e.invoked[i].node]

\* The nodes strictly before node n in the order of the run's flow.
Before(e, n) ==
  LET order == sortedNodes(e.edges)
  IN {order[i] : i \in {j \in 1..Len(order) : \A k \in 1..j : order[k] # n}}

C25_FailFast ==
  \A rec \in {r \in InFlight : r.kind = "executeScheduledFlow"} :
    LET e == rec.run
        n == e.error.node
    IN (e.status = "failed" /\ e.error.kind # "GraphError")
       => /\ e.error.kind \in {"MethodResolutionFailure", "ExecutionFailure"}
          /\ n \in Nodes /\ e.behaviour[n] \in {"unresolved", "throws"}
          /\ \A m \in Before(e, n) : e.behaviour[m] = "ok"
          /\ {e.invoked[i].node : i \in 1..Len(e.invoked)}
               = Before(e, n) \cup (IF e.behaviour[n] = "throws" THEN {n} ELSE {})
          /\ DOMAIN e.results = Before(e, n)
          /\ rec.pc \in {"f_run", "f_failsave"}
          /\ rec.pc = "f_failsave" => rec.err = "node failed"
          /\ \A r2 \in InFlight : (r2.pc = "f_run" /\ r2.run = e)
                => ~ENABLED (ResolveMethod(r2) \/ InvokeMethod(r2))

C25_Witness ==
  \E rec \in InFlight :
    /\ rec.pc = "f_failsave" /\ rec.err = "node failed"
    /\ rec.run.status = "failed"
    /\ rec.run.error = [kind |-> "MethodResolutionFailure", node |-> 2]
    /\ rec.run.edges = Chain
    /\ DOMAIN rec.run.results = {1}
    /\ InvokedNodes(rec.run) = <<1>>

\* Call rec goes on as r2 in this step.
Becomes(rec, r2) ==
  /\ Acts(rec)
  /\ r2 \in BagToSet(calls')
  /\ CopiesIn(r2, calls') > CopiesIn(r2, calls)

Firings == {rec \in InFlight : rec.kind = "executeScheduledFlow"}

\* A firing's read returns the schedule as it is in the store at that
\* moment; a firing whose read found the schedule disabled ends there, a
\* skip that writes nothing; and in the step that starts a firing's run the
\* running mark is in the store.
C26_FiringStep ==
  \A rec \in Firings :
    /\ \A r2 \in BagToSet(calls') :
         (rec.pc = "f_read" /\ Becomes(rec, r2))
         => r2.seen = FindById(store, flows, rec.sid) /\ r2.doc = r2.seen
    /\ (rec.pc = "f_got" /\ ~rec.seen.enabled /\ Acts(rec))
         => EndsWith(rec, "skipped_disabled") /\ UNCHANGED <<store, jobs, tasks>>
    /\ \A r2 \in BagToSet(calls') :
         (~rec.ran /\ Becomes(rec, r2) /\ r2.ran)
         => /\ rec.pc = "f_mark"
            /\ store'[rec.sid].running
            /\ r2.pc = "f_run" /\ r2.run = NoExecution

\* A firing starts with the schedule id alone, and one that has started its
\* run read the schedule existing, enabled and not running.
C26_DecidesOnFreshState ==
  \A rec \in Firings :
    /\ rec.pc = "f_read" => rec.doc = NullDoc /\ rec.seen = NullDoc
    /\ rec.ran => rec.seen.exists /\ rec.seen.enabled /\ ~rec.seen.running

\* C26: in every firing that passes the enabled check and the concurrency
\* guard, isCurrentlyRunning=true is in the persisted store before the input
\* resolver and the flow executor are invoked; each firing decides on the
\* schedule as re-read from the store when it fires, so a firing that finds
\* the schedule disabled in the store never starts a run, although its
\* trigger is still live.
C26_MarkedBeforeRunFreshRead == [](C26_DecidesOnFreshState) /\ [][C26_FiringStep]_vars

\* The trigger of a schedule has fired after the API layer disabled the
\* schedule in the store: the firing ended as a skip, the trigger still live.
C26_Witness ==
  /\ last.kind = "executeScheduledFlow" /\ last.out = "skipped_disabled"
  /\ ~last.ran /\ last.task # 0
  /\ tasks[last.task].live /\ jobs[last.sid] = last.task
  /\ store[last.sid].exists /\ ~store[last.sid].enabled
  /\ store[last.sid].paused = "" /\ ~store[last.sid].running

\* A call ends in this step.
CallEnds ==
  \/ ncalls' # ncalls /\ calls' = calls
  \/ BagCardinality(calls') < BagCardinality(calls)

\* C27: when registerSchedule fails for a schedule id that had a live trigger
\* when the call was made, the registry is as it was: that trigger is still
\* the one registered for the id, and it is still running.
C27_FailureStep ==
  (/\ CallEnds
   /\ last'.kind = "registerSchedule" /\ last'.out = "threw"
   /\ last'.old # 0)
  => /\ jobs'[last'.sid] = last'.old
     /\ tasks'[last'.old].live

C27_RegisterAtomicOnError == [][C27_FailureStep]_vars

\* C28: whenever the persisted schedule has been auto-disabled by
\* executeScheduledFlow (enabled=false with pausedReason set), no live
\* trigger exists for its id, whatever reloadSchedule calls for the id
\* interleave with the firing.
C28_AutoDisabledHasNoTrigger ==
  \A s \in DOMAIN store : AutoDisabled(store[s]) => LiveTasks(s) = {}

\* C29: when the process does not crash, every flow run terminates and the
\* store writes succeed, isCurrentlyRunning=true in the store is always
\* followed by isCurrentlyRunning=false in the store: every firing that set
\* the mark clears it, and the schedule is not left skipping its firings.
C29_RunningEventuallyCleared ==
  \A s \in Schedules : store[s].running ~> ~store[s].running

\* A firing has persisted the running mark and its flow run is under way.
C29_Witness ==
  \E rec \in Firings :
    /\ rec.pc = "f_run" /\ rec.ran
    /\ store[rec.sid].running /\ store[rec.sid].enabled

====
